---- MODULE Spec2Model ----
(***************************************************************************)
(* Projectile-motion simulator: the physics engine (PhysicsEngine), the    *)
(* simulated body (Projectile), the trajectory preview                     *)
(* (TrajectoryPredictor), the controller that owns the bodies              *)
(* (ProjectileMotionApp), the loading of stored configurations            *)
(* (ConfigurationManager), the targets of target practice (TargetSystem)   *)
(* and the stored high scores (Leaderboard).                               *)
(*                                                                         *)
(* Numbers.  The program computes in IEEE doubles; the model computes in   *)
(* fixed point, every product followed by a floor division (MulDiv):       *)
(*   time            ms          (dt = 0.016 s  -> 16)                     *)
(*   position        mm                                                    *)
(*   velocity        mm/s        (15 m/s -> 15000)                         *)
(*   acceleration    mm/s^2      (9.81 m/s^2 -> 9810)                      *)
(*   force           mN                                                    *)
(*   mass            0.1 kg      (1.0 kg -> 10)                            *)
(*   diameter        cm          (0.5 m -> 50)                             *)
(*   area            cm^2                                                  *)
(*   wind speed      0.1 m/s     (5 m/s -> 50)                             *)
(*   target radius   mm          (1.5 m -> 1500)                           *)
(*   speed setting   1/10        (1.0x -> 10)                              *)
(*   angle           degrees                                               *)
(*   sin, cos        1/10000                                               *)
(***************************************************************************)
EXTENDS Integers, Sequences, FiniteSets, TLC

(***************************************************************************)
(* Bounds of the model                                                     *)
(***************************************************************************)
\* launch speeds offered to the model: 1 .. MaxVelocity m/s
MaxVelocity == 2
\* longest list of simulated projectiles the controller model lets grow
MaxProjectiles == 2
\* longest list the model of repeated firing lets grow
MaxFired == 7
\* longest list of targets the model of the TargetSystem lets grow
MaxTargets == 3
\* new targets are drawn in the models while the score is below MaxScore
MaxScore == 100
\* addScore() is called in the model of the leaderboard with the scores of
\* 1 .. MaxHits hits
MaxHits == 3

(***************************************************************************)
(* Fixed-point arithmetic                                                  *)
(***************************************************************************)
\* floor(a * b / c) without forming a * b
MulDiv(a, b, c) == (a \div c) * b + ((a % c) * b) \div c

Abs(a) == IF a < 0 THEN -a ELSE a

RECURSIVE SqrtIter(_, _, _)
\* largest r in lo..hi with r * r <= n
SqrtIter(n, lo, hi) ==
    IF lo >= hi THEN lo
    ELSE LET mid == (lo + hi + 1) \div 2
         IN  IF mid * mid <= n THEN SqrtIter(n, mid, hi)
                               ELSE SqrtIter(n, lo, mid - 1)

\* Math.sqrt
Sqrt(n) == SqrtIter(n, 0, 46340)

\* Math.cos(angle * Math.PI / 180), in 1/10000
Cos(angle) ==
    CASE angle = 0  -> 10000
      [] angle = 15 -> 9659
      [] angle = 30 -> 8660
      [] angle = 45 -> 7071
      [] angle = 60 -> 5000
      [] angle = 75 -> 2588
      [] angle = 90 -> 0

\* Math.sin(angle * Math.PI / 180), in 1/10000
Sin(angle) ==
    CASE angle = 0  -> 0
      [] angle = 15 -> 2588
      [] angle = 30 -> 5000
      [] angle = 45 -> 7071
      [] angle = 60 -> 8660
      [] angle = 75 -> 9659
      [] angle = 90 -> 10000

(***************************************************************************)
(* PhysicsEngine                                                           *)
(***************************************************************************)
\* this.AIR_DENSITY = 1.225 kg/m^3, in g/m^3
AIR_DENSITY == 1225
\* this.DRAG_COEFFICIENT = 0.47, in 1/100
DRAG_COEFFICIENT == 47
\* this.dt = 0.016 s, in ms
dt == 16

\* closed-form position and velocity at time t
calculateNoAirResistance(v0, angle, g, t) ==
    LET v0x == MulDiv(v0, Cos(angle), 10000)
        v0y == MulDiv(v0, Sin(angle), 10000)
    IN  [x  |-> MulDiv(v0x, t, 1000),
         y  |-> MulDiv(v0y, t, 1000)
                  - MulDiv(MulDiv(g \div 2, t, 1000), t, 1000),
         vx |-> v0x,
         vy |-> v0y - MulDiv(g, t, 1000)]

\* Math.PI * (diameter / 2) ** 2, in cm^2
Area(diameter) == MulDiv(31416, diameter * diameter, 40000)

\* F = 0.5 * rho * v^2 * Cd * A, opposite to the velocity
calculateDragForce(vx, vy, diameter) ==
    LET v    == Sqrt(vx * vx + vy * vy)
        area == Area(diameter)
        dragMagnitude ==
            MulDiv(MulDiv(MulDiv(v * v, AIR_DENSITY, 1000),
                          DRAG_COEFFICIENT, 100000),
                   area, 20000)
    IN  [fx |-> IF v > 0 THEN -MulDiv(dragMagnitude, vx, v) ELSE 0,
         fy |-> IF v > 0 THEN -MulDiv(dragMagnitude, vy, v) ELSE 0]

\* horizontal force of the wind, signed as the wind speed
calculateWindForce(windSpeed, diameter) ==
    LET area == Area(diameter)
        windForce ==
            MulDiv(MulDiv(AIR_DENSITY * windSpeed * Abs(windSpeed),
                          DRAG_COEFFICIENT, 10000),
                   area, 20000)
    IN  [fx |-> windForce, fy |-> 0]

\* a step that moves the position by the velocity it has just computed
integrateStep_NewVelocity(state, mass, diameter, g, airResistance, windSpeed) ==
    LET drag == calculateDragForce(state.vx, state.vy, diameter)
        wind == calculateWindForce(windSpeed, diameter)
        ax1  == IF airResistance THEN MulDiv(drag.fx, 10, mass) ELSE 0
        ay   == IF airResistance THEN -g + MulDiv(drag.fy, 10, mass) ELSE -g
        ax   == IF windSpeed # 0 THEN ax1 + MulDiv(wind.fx, 10, mass) ELSE ax1
        vx   == state.vx + MulDiv(ax, dt, 1000)
        vy   == state.vy + MulDiv(ay, dt, 1000)
    IN  [x  |-> state.x + MulDiv(vx, dt, 1000),
         y  |-> state.y + MulDiv(vy, dt, 1000),
         vx |-> vx,
         vy |-> vy]

\* a step that adds the wind only when there is no drag
integrateStep_WindWithoutDrag(state, mass, diameter, g, airResistance, windSpeed) ==
    LET drag == calculateDragForce(state.vx, state.vy, diameter)
        wind == calculateWindForce(windSpeed, diameter)
        ax   == IF airResistance THEN MulDiv(drag.fx, 10, mass)
                ELSE IF windSpeed # 0 THEN MulDiv(wind.fx, 10, mass) ELSE 0
        ay   == IF airResistance THEN -g + MulDiv(drag.fy, 10, mass) ELSE -g
    IN  [x  |-> state.x + MulDiv(state.vx, dt, 1000),
         y  |-> state.y + MulDiv(state.vy, dt, 1000),
         vx |-> state.vx + MulDiv(ax, dt, 1000),
         vy |-> state.vy + MulDiv(ay, dt, 1000)]

\* one explicit Euler step of length dt
integrateStep(state, mass, diameter, g, airResistance, windSpeed) ==
    LET drag == calculateDragForce(state.vx, state.vy, diameter)
        wind == calculateWindForce(windSpeed, diameter)
        ax0  == 0
        ay0  == -g
        ax1  == IF airResistance THEN ax0 + MulDiv(drag.fx, 10, mass) ELSE ax0
        ay   == IF airResistance THEN ay0 + MulDiv(drag.fy, 10, mass) ELSE ay0
        ax   == IF windSpeed # 0 THEN ax1 + MulDiv(wind.fx, 10, mass) ELSE ax1
    IN  [x  |-> state.x + MulDiv(state.vx, dt, 1000),
         y  |-> state.y + MulDiv(state.vy, dt, 1000),
         vx |-> state.vx + MulDiv(ax, dt, 1000),
         vy |-> state.vy + MulDiv(ay, dt, 1000)]

\* a call of integrateStep: the object handed in as the call leaves it (no
\* field of it is assigned) and the new object returned
integrateStepEffect(state, mass, diameter, g, airResistance, windSpeed) ==
    [state    |-> state,
     newState |-> integrateStep(state, mass, diameter, g, airResistance,
                                windSpeed)]

(***************************************************************************)
(* Projectile                                                              *)
(***************************************************************************)
\* this.maxTrajectoryPoints = 500
maxTrajectoryPoints == 500
\* the landing test's guard, time > 0.01 s, in ms
LandingGuard == 10

\* reset() that leaves the trajectory history and the max height
ProjectileReset_KeepsHistory(p) ==
    [p EXCEPT !.state      = [x  |-> 0,
                              y  |-> 0,
                              vx |-> MulDiv(p.v0, Cos(p.angle), 10000),
                              vy |-> MulDiv(p.v0, Sin(p.angle), 10000)],
              !.time       = 0,
              !.isFlying   = FALSE,
              !.hasLanded  = FALSE,
              !.range      = 0]

\* reset(): the fields of p after this.reset()
ProjectileReset(p) ==
    [p EXCEPT !.state      = [x  |-> 0,
                              y  |-> 0,
                              vx |-> MulDiv(p.v0, Cos(p.angle), 10000),
                              vy |-> MulDiv(p.v0, Sin(p.angle), 10000)],
              !.time       = 0,
              !.isFlying   = FALSE,
              !.hasLanded  = FALSE,
              !.trajectory = << >>,
              !.maxHeight  = 0,
              !.range      = 0]

\* new Projectile(params)
NewProjectile(params) ==
    ProjectileReset(
        [v0            |-> params.velocity,
         angle         |-> params.angle,
         mass          |-> params.mass,
         diameter      |-> params.diameter,
         gravity       |-> params.gravity,
         airResistance |-> params.airResistance,
         windSpeed     |-> params.windSpeed,
         state         |-> [x |-> 0, y |-> 0, vx |-> 0, vy |-> 0],
         time          |-> 0,
         isFlying      |-> FALSE,
         hasLanded     |-> FALSE,
         trajectory    |-> << >>,
         maxHeight     |-> 0,
         range         |-> 0])

\* launch() without the reset()
ProjectileLaunch_NoReset(p) == [p EXCEPT !.isFlying = TRUE]

\* launch()
ProjectileLaunch(p) == [ProjectileReset(p) EXCEPT !.isFlying = TRUE]

\* update() returning early for an idle projectile only
UpdateReturnsEarly_OnlyIdle(p) == ~p.isFlying /\ ~p.hasLanded

\* update(): the early return of line 198
UpdateReturnsEarly(p) == ~p.isFlying \/ p.hasLanded

\* update(): the test that selects the integrator
ProjectileIntegrates(p) == p.airResistance \/ p.windSpeed # 0

\* update(): the next kinematic state, by the integrator or the closed form
UpdatePhysics(p) ==
    IF ProjectileIntegrates(p)
    THEN integrateStep(p.state, p.mass, p.diameter, p.gravity,
                       p.airResistance, p.windSpeed)
    ELSE calculateNoAirResistance(p.v0, p.angle, p.gravity, p.time)

\* update() sampling the position after the step
UpdateTrajectory_AfterStep(p) ==
    IF Len(p.trajectory) < maxTrajectoryPoints
    THEN Append(p.trajectory,
                [x |-> UpdatePhysics(p).x, y |-> UpdatePhysics(p).y])
    ELSE p.trajectory

\* update() sampling without the length test
UpdateTrajectory_Unbounded(p) ==
    Append(p.trajectory, [x |-> p.state.x, y |-> p.state.y])

\* update(): the trajectory after the sample of this tick
UpdateTrajectory(p) ==
    IF Len(p.trajectory) < maxTrajectoryPoints
    THEN Append(p.trajectory, [x |-> p.state.x, y |-> p.state.y])
    ELSE p.trajectory

\* update() comparing the height held before the step
UpdateMaxHeight_BeforeStep(p, s) ==
    IF p.state.y > p.maxHeight THEN p.state.y ELSE p.maxHeight

\* update() storing the latest height instead of the highest
UpdateMaxHeight_Latest(p, s) == s.y

\* update(): the max height after a tick that produced the state s
UpdateMaxHeight(p, s) == IF s.y > p.maxHeight THEN s.y ELSE p.maxHeight

\* update(): the landing test on the new state s at the new time t
UpdateLanded(s, t) == s.y <= 0 /\ t > LandingGuard

\* update() that sets hasLanded on landing and leaves isFlying as it was
ProjectileUpdate_KeepsFlying(p) ==
    IF UpdateReturnsEarly(p) THEN p
    ELSE LET s == UpdatePhysics(p)
             t == p.time + dt
             landed == UpdateLanded(s, t)
         IN  [p EXCEPT !.trajectory = UpdateTrajectory(p),
                       !.state      = IF landed THEN [s EXCEPT !.y = 0] ELSE s,
                       !.time       = t,
                       !.maxHeight  = UpdateMaxHeight(p, s),
                       !.hasLanded  = IF landed THEN TRUE ELSE p.hasLanded,
                       !.range      = IF landed THEN s.x ELSE p.range]

\* update() that recomputes both flags from the landing test on every tick
\* of a launched projectile instead of latching them
ProjectileUpdate_Recomputes(p) ==
    IF ~p.isFlying /\ ~p.hasLanded THEN p
    ELSE LET s == UpdatePhysics(p)
             t == p.time + dt
             landed == UpdateLanded(s, t)
         IN  [p EXCEPT !.trajectory = UpdateTrajectory(p),
                       !.state      = IF landed THEN [s EXCEPT !.y = 0] ELSE s,
                       !.time       = t,
                       !.maxHeight  = UpdateMaxHeight(p, s),
                       !.hasLanded  = landed,
                       !.isFlying   = ~landed,
                       !.range      = IF landed THEN s.x ELSE p.range]

\* update() that takes the range from the state before this tick's physics
ProjectileUpdate_RangeBeforeTick(p) ==
    IF UpdateReturnsEarly(p) THEN p
    ELSE LET s == UpdatePhysics(p)
             t == p.time + dt
             landed == UpdateLanded(s, t)
         IN  [p EXCEPT !.trajectory = UpdateTrajectory(p),
                       !.state      = IF landed THEN [s EXCEPT !.y = 0] ELSE s,
                       !.time       = t,
                       !.maxHeight  = UpdateMaxHeight(p, s),
                       !.hasLanded  = IF landed THEN TRUE ELSE p.hasLanded,
                       !.isFlying   = IF landed THEN FALSE ELSE p.isFlying,
                       !.range      = IF landed THEN p.state.x ELSE p.range]

\* update() that advances the time only with a trajectory sample
ProjectileUpdate_TimeWithSample(p) ==
    IF UpdateReturnsEarly(p) THEN p
    ELSE LET s == UpdatePhysics(p)
             t == IF Len(p.trajectory) < maxTrajectoryPoints
                  THEN p.time + dt ELSE p.time
             landed == UpdateLanded(s, t)
         IN  [p EXCEPT !.trajectory = UpdateTrajectory(p),
                       !.state      = IF landed THEN [s EXCEPT !.y = 0] ELSE s,
                       !.time       = t,
                       !.maxHeight  = UpdateMaxHeight(p, s),
                       !.hasLanded  = IF landed THEN TRUE ELSE p.hasLanded,
                       !.isFlying   = IF landed THEN FALSE ELSE p.isFlying,
                       !.range      = IF landed THEN s.x ELSE p.range]

\* update() that tests for landing before it advances the time, and
\* returns on landing
ProjectileUpdate_TestsBeforeTick(p) ==
    IF UpdateReturnsEarly(p) THEN p
    ELSE LET s == UpdatePhysics(p)
             landed == UpdateLanded(s, p.time + dt)
             t == IF landed THEN p.time ELSE p.time + dt
         IN  [p EXCEPT !.trajectory = UpdateTrajectory(p),
                       !.state      = IF landed THEN [s EXCEPT !.y = 0] ELSE s,
                       !.time       = t,
                       !.maxHeight  = UpdateMaxHeight(p, s),
                       !.hasLanded  = IF landed THEN TRUE ELSE p.hasLanded,
                       !.isFlying   = IF landed THEN FALSE ELSE p.isFlying,
                       !.range      = IF landed THEN s.x ELSE p.range]

\* update()
ProjectileUpdate(p) ==
    IF UpdateReturnsEarly(p) THEN p
    ELSE LET s == UpdatePhysics(p)
             t == p.time + dt
             landed == UpdateLanded(s, t)
         IN  [p EXCEPT !.trajectory = UpdateTrajectory(p),
                       !.state      = IF landed THEN [s EXCEPT !.y = 0] ELSE s,
                       !.time       = t,
                       !.maxHeight  = UpdateMaxHeight(p, s),
                       !.hasLanded  = IF landed THEN TRUE ELSE p.hasLanded,
                       !.isFlying   = IF landed THEN FALSE ELSE p.isFlying,
                       !.range      = IF landed THEN s.x ELSE p.range]

\* getVelocity()
getVelocity(p) == Sqrt(p.state.vx * p.state.vx + p.state.vy * p.state.vy)

(***************************************************************************)
(* TrajectoryPredictor                                                     *)
(***************************************************************************)
\* calculateTrajectory(): const dt = 0.05 s, in ms
PredictorDt == 50
\* calculateTrajectory(): const maxTime = 30 s, in ms
PredictorMaxTime == 30000
\* calculateTrajectory(): the break test's guard, t > 0.01 s, in ms
PredictorGuard == 10

\* calculateTrajectory(): the local `state` before the loop
PredictorInitialState(ps) ==
    [x  |-> 0,
     y  |-> 0,
     vx |-> MulDiv(ps.velocity, Cos(ps.angle), 10000),
     vy |-> MulDiv(ps.velocity, Sin(ps.angle), 10000)]

\* calculateTrajectory(): the test that selects the integrator
PredictorIntegrates(ps) ==
    ps.airResistance \/ (ps.windEnabled /\ ps.windSpeed # 0)

\* calculateTrajectory(): the wind speed handed to the integrator
PredictorWind(ps) == IF ps.windEnabled THEN ps.windSpeed ELSE 0

\* calculateTrajectory(): the state the loop body computes at loop time t
PredictorPhysics(ps, state, t) ==
    IF PredictorIntegrates(ps)
    THEN integrateStep(state, ps.mass, ps.diameter, ps.gravity,
                       ps.airResistance, PredictorWind(ps))
    ELSE calculateNoAirResistance(ps.velocity, ps.angle, ps.gravity, t)

\* calculateTrajectory(): the break test
PredictorBreaks(state, t) == state.y < 0 /\ t > PredictorGuard

\* calculateTrajectory(): the loop before its first iteration
PredictorStart(ps) ==
    [state  |-> PredictorInitialState(ps),
     t      |-> 0,
     points |-> << >>,
     done   |-> FALSE]

\* the loop with the test t <= maxTime
PredictorIteration_Inclusive(ps, loop) ==
    IF loop.done THEN loop
    ELSE IF ~(loop.t <= PredictorMaxTime) THEN [loop EXCEPT !.done = TRUE]
    ELSE LET pushed == Append(loop.points,
                              [x |-> loop.state.x, y |-> loop.state.y])
         IN  IF PredictorBreaks(loop.state, loop.t)
             THEN [loop EXCEPT !.points = pushed, !.done = TRUE]
             ELSE [state  |-> PredictorPhysics(ps, loop.state, loop.t),
                   t      |-> loop.t + PredictorDt,
                   points |-> pushed,
                   done   |-> FALSE]

\* calculateTrajectory(): one iteration of
\* for (let t = 0; t < maxTime; t += dt) { push; break test; physics },
\* nothing once the loop is over
PredictorIteration(ps, loop) ==
    IF loop.done THEN loop
    ELSE IF ~(loop.t < PredictorMaxTime) THEN [loop EXCEPT !.done = TRUE]
    ELSE LET pushed == Append(loop.points,
                              [x |-> loop.state.x, y |-> loop.state.y])
         IN  IF PredictorBreaks(loop.state, loop.t)
             THEN [loop EXCEPT !.points = pushed, !.done = TRUE]
             ELSE [state  |-> PredictorPhysics(ps, loop.state, loop.t),
                   t      |-> loop.t + PredictorDt,
                   points |-> pushed,
                   done   |-> FALSE]

RECURSIVE PredictorIterations(_, _, _)
\* n iterations in sequence: the first half and, unless the loop is over,
\* the rest
PredictorIterations(ps, loop, n) ==
    IF n = 0 THEN loop
    ELSE IF n = 1 THEN PredictorIteration(ps, loop)
    ELSE LET half == PredictorIterations(ps, loop, n \div 2)
         IN  IF half.done THEN half
             ELSE PredictorIterations(ps, half, n - n \div 2)

\* calculateTrajectory(): the loop run to its end; it is over after at most
\* maxTime / dt + 1 iterations, whatever its tests say before
PredictorLoop(ps) ==
    PredictorIterations(ps, PredictorStart(ps),
                        PredictorMaxTime \div PredictorDt + 2)

\* calculateTrajectory() running its loop on the state object of the first
\* listed projectile instead of a state of its own
calculateTrajectory_OnLiveState(list, ps) ==
    LET run == PredictorLoop(ps)
    IN  [points      |-> run.points,
         projectiles |-> IF list = << >> THEN list
                         ELSE [list EXCEPT ![1].state = run.state],
         params      |-> ps]

\* calculateTrajectory(params): the points returned, and the listed
\* projectiles and the parameter object as the call leaves them
calculateTrajectory(list, ps) ==
    LET run == PredictorLoop(ps)
    IN  [points      |-> run.points,
         projectiles |-> list,
         params      |-> ps]

\* drawPrediction(params, showPrediction); `last` is the path drawn before
drawPrediction(list, ps, show, last) ==
    IF ~show THEN [points |-> last, projectiles |-> list, params |-> ps]
    ELSE calculateTrajectory(list, ps)

(***************************************************************************)
(* TargetSystem (part_000:1084-1178), as operators on the record           *)
(* [targets, score].  Positions and radii are in mm.                       *)
(***************************************************************************)
\* new TargetSystem(renderer)
NewTargetSystem == [targets |-> << >>, score |-> 0]

\* addTarget(x, y, radius): points is Math.floor(100 / radius), the radius
\* in m
addTarget(system, x, y, radius) ==
    [system EXCEPT !.targets =
        Append(@, [x |-> x, y |-> y, radius |-> radius, hit |-> FALSE,
                   points |-> 100000 \div radius])]

RECURSIVE addTargets(_, _)
\* createRandomTargets(): the loop, one addTarget per draw of Math.random
addTargets(system, draws) ==
    IF draws = << >> THEN system
    ELSE addTargets(addTarget(system, Head(draws).x, Head(draws).y,
                              Head(draws).radius),
                    Tail(draws))

\* createRandomTargets(count), the count-th draw being draws[count]: the
\* list is emptied, the score is left as it is
createRandomTargets(system, draws) ==
    addTargets([system EXCEPT !.targets = << >>], draws)

\* Math.sqrt(dx * dx + dy * dy) < reach, on whole numbers: the squares are
\* compared, and only where they fit the width of the numbers
Closer(dx, dy, reach) ==
    /\ Abs(dx) < reach
    /\ Abs(dy) < reach
    /\ dx * dx + dy * dy < reach * reach

\* the targets checkHit() would mark: not hit yet and within reach
Hittable(system, px, py, pr) ==
    {k \in DOMAIN system.targets :
        /\ ~system.targets[k].hit
        /\ Closer(px - system.targets[k].x, py - system.targets[k].y,
                  system.targets[k].radius + pr)}

\* the least number of a non-empty set of numbers
Least(S) == CHOOSE k \in S : \A j \in S : k <= j

\* checkHit(projectileX, projectileY, projectileRadius): the first target
\* of the list that is not hit yet and within reach is marked and its
\* points are added
checkHit(system, px, py, pr) ==
    LET within == Hittable(system, px, py, pr)
    IN  IF within = {} THEN [system |-> system, result |-> FALSE]
        ELSE LET k == Least(within)
             IN  [system |->
                     [targets |-> [system.targets EXCEPT ![k].hit = TRUE],
                      score |-> system.score + system.targets[k].points],
                  result |-> TRUE]

\* targetSystem.reset()
TargetSystemReset(system) ==
    [targets |-> [k \in DOMAIN system.targets |->
                     [system.targets[k] EXCEPT !.hit = FALSE]],
     score |-> 0]

\* targetSystem.clear()
TargetSystemClear(system) == [targets |-> << >>, score |-> 0]

\* this.targetSystem.targets.filter(t => t.hit).length
HitCount(system) ==
    Cardinality({k \in DOMAIN system.targets : system.targets[k].hit})

(***************************************************************************)
(* Leaderboard (leaderboard.js), as operators on the item stored under     *)
(* its storage key: << >> when there is none, <<list>> otherwise.  The     *)
(* timestamp and the date of an entry are left out.                        *)
(***************************************************************************)
maxEntries == 10

\* playerName = prompt(..., 'Player') || 'Anonymous': the answer is "" when
\* the dialog is cancelled or left empty
PlayerName(answer) == IF answer = "" THEN "Anonymous" ELSE answer

\* Math.round((targetsHit / totalTargets) * 100), 0 without targets
Accuracy(targetsHit, totalTargets) ==
    IF totalTargets > 0
    THEN (200 * targetsHit + totalTargets) \div (2 * totalTargets)
    ELSE 0

\* getLeaderboard(): the stored list, [] when nothing is stored
getLeaderboard(storage) == IF storage = << >> THEN << >> ELSE storage[1]

\* saveLeaderboard(leaderboard)
saveLeaderboard(leaderboard) == <<leaderboard>>

RECURSIVE InsertByScore(_, _)
\* e put behind the items of a sorted list that do not score less
InsertByScore(sorted, e) ==
    IF sorted = << >> THEN <<e>>
    ELSE IF Head(sorted).score >= e.score
         THEN <<Head(sorted)>> \o InsertByScore(Tail(sorted), e)
         ELSE <<e>> \o sorted

RECURSIVE SortByScore(_)
\* leaderboard.sort((a, b) => b.score - a.score): descending, and stable
SortByScore(list) ==
    IF list = << >> THEN << >>
    ELSE InsertByScore(SortByScore(SubSeq(list, 1, Len(list) - 1)),
                       list[Len(list)])

\* leaderboard.slice(0, count)
Slice(list, count) ==
    SubSeq(list, 1, IF Len(list) < count THEN Len(list) ELSE count)

\* trimmed.findIndex(e => e === entry) + 1, on items that carry the mark
\* `pushed` of the entry just pushed
Rank(trimmed) ==
    LET at == {k \in DOMAIN trimmed : trimmed[k].pushed}
    IN  IF at = {} THEN 0 ELSE Least(at)

\* addScore() that keeps the entries in the order of their arrival
addScore_Unsorted(storage, score, targetsHit, totalTargets, answer) ==
    LET entry == [name |-> PlayerName(answer), score |-> score,
                  targetsHit |-> targetsHit, totalTargets |-> totalTargets,
                  accuracy |-> Accuracy(targetsHit, totalTargets)]
        trimmed == Slice(Append(getLeaderboard(storage), entry), maxEntries)
    IN  [storage |-> saveLeaderboard(trimmed), rank |-> Len(trimmed)]

\* addScore(score, targetsHit, totalTargets): the storage it leaves and the
\* rank it returns
addScore(storage, score, targetsHit, totalTargets, answer) ==
    LET entry == [name |-> PlayerName(answer), score |-> score,
                  targetsHit |-> targetsHit, totalTargets |-> totalTargets,
                  accuracy |-> Accuracy(targetsHit, totalTargets)]
        stored == getLeaderboard(storage)
        leaderboard ==
            [k \in 1..Len(stored) |->
                [entry |-> stored[k], score |-> stored[k].score,
                 pushed |-> FALSE]]
            \o <<[entry |-> entry, score |-> entry.score, pushed |-> TRUE]>>
        trimmed == Slice(SortByScore(leaderboard), maxEntries)
    IN  [storage |-> saveLeaderboard([k \in 1..Len(trimmed) |-> trimmed[k].entry]),
         rank |-> Rank(trimmed)]

\* clearLeaderboard(): localStorage.removeItem(this.storageKey)
clearLeaderboard(storage) == << >>

(***************************************************************************)
(* State                                                                   *)
(*                                                                         *)
(* A Projectile object is identified by its place: its index in            *)
(* app.projectiles, or the one place `unlisted` for the object that        *)
(* app.currentProjectile refers to before it is pushed on the list.        *)
(***************************************************************************)
VARIABLES
    projectiles,         \* app.projectiles: the Projectile objects, in order
    unlisted,            \* the object currentProjectile refers to when it is
                         \* not in the list: << >> or <<object>>
    currentProjectile,   \* app.currentProjectile: Null, an index of the
                         \* list, or Unlisted
    params,              \* app.params
    multiProjectileMode, \* app.multiProjectileMode
    isPaused,            \* app.isPaused
    simulationSpeed,     \* app.simulationSpeed, in 1/10
    showPrediction,      \* app.showPrediction
    prediction,          \* the points the last calculateTrajectory() returned
    targetMode,          \* app.targetMode
    targetSystem,        \* app.targetSystem: its targets and its score
    localStorage,        \* the item stored under leaderboard.storageKey:
                         \* << >> when absent, or <<the stored list>>
    timers               \* the pending callbacks of submitToLeaderboard

targetVars == <<targetMode, targetSystem, localStorage, timers>>

vars == <<projectiles, unlisted, currentProjectile, params,
          multiProjectileMode, isPaused, simulationSpeed,
          showPrediction, prediction, targetVars>>

Null == 0

Unlisted == -1

\* the constructor: targetMode false, a new TargetSystem, no timer; the
\* browser's storage without a leaderboard
InitTargetMode ==
    /\ targetMode = FALSE
    /\ targetSystem = NewTargetSystem
    /\ localStorage = << >>
    /\ timers = 0

\* the constructor's this.params (main.js:25-34)
DefaultParams ==
    [velocity |-> 15000, angle |-> 45, mass |-> 10, diameter |-> 50,
     gravity |-> 9810, airResistance |-> FALSE, windSpeed |-> 0,
     windEnabled |-> FALSE]

\* the parameter objects handed to new Projectile(...) by the direct driver
ProjectileParams ==
    [velocity      : {1000 * k : k \in 1..MaxVelocity},
     angle         : {0, 30, 60, 90},
     mass          : {10},
     diameter      : {50},
     gravity       : {24790},
     airResistance : BOOLEAN,
     windSpeed     : {0, 50}]

(***************************************************************************)
(* Projectile methods called on the i-th object of a list                  *)
(***************************************************************************)
\* list after list[i].reset()
ResetAt(list, i) == [list EXCEPT ![i] = ProjectileReset(list[i])]

\* list after list[i].launch()
LaunchAt(list, i) == [list EXCEPT ![i] = ProjectileLaunch(list[i])]

\* update() on a kinematic state object that every instance shares with the
\* first one: the step starts from the state the first instance holds
UpdateAt_SharedState(list, i) ==
    [list EXCEPT ![i] = ProjectileUpdate([list[i] EXCEPT !.state = list[1].state])]

\* update() on a kinematic state object shared by all instances: the new
\* state shows in every instance
UpdateAt_WritesShared(list, i) ==
    [k \in DOMAIN list |->
        IF k = i THEN ProjectileUpdate(list[i])
        ELSE [list[k] EXCEPT !.state = ProjectileUpdate(list[i]).state]]

\* list after list[i].update()
UpdateAt(list, i) == [list EXCEPT ![i] = ProjectileUpdate(list[i])]

AppUnchanged ==
    UNCHANGED <<unlisted, currentProjectile, params,
                multiProjectileMode, isPaused, simulationSpeed,
                showPrediction, prediction, targetVars>>

\* p.launch() on a live instance
Launch(i) == AppUnchanged /\ projectiles' = LaunchAt(projectiles, i)

\* p.update() on a live instance
Update(i) == AppUnchanged /\ projectiles' = UpdateAt(projectiles, i)

\* p.reset() on a live instance
Reset(i) == AppUnchanged /\ projectiles' = ResetAt(projectiles, i)

(***************************************************************************)
(* SpecProj: two Projectile instances, constructed from any parameters of   *)
(* ProjectileParams, and any sequence of launch(), update() and reset() on  *)
(* either.                                                                  *)
(***************************************************************************)
Instances == {1, 2}

InitProj ==
    /\ projectiles \in [Instances -> {NewProjectile(ps) : ps \in ProjectileParams}]
    /\ unlisted = << >>
    /\ currentProjectile = Null
    /\ params = DefaultParams
    /\ multiProjectileMode = TRUE
    /\ isPaused = FALSE
    /\ simulationSpeed = 10
    /\ showPrediction = FALSE
    /\ prediction = << >>
    /\ InitTargetMode

NextProj ==
    \/ \E i \in Instances : Launch(i)
    \/ \E i \in Instances : Update(i)
    \/ \E i \in Instances : Reset(i)

SpecProj == InitProj /\ [][NextProj]_vars

(***************************************************************************)
(* ProjectileMotionApp                                                     *)
(***************************************************************************)
\* the values the controls of the model offer
Velocities  == {1000}
Angles      == {15}
Masses      == {10}
Diameters   == {50}
Gravities   == {24790}
WindSpeeds  == {50}
SimSpeeds   == {10}

AppParams ==
    [velocity : Velocities, angle : Angles, mass : Masses,
     diameter : Diameters, gravity : Gravities, airResistance : BOOLEAN,
     windSpeed : WindSpeeds, windEnabled : BOOLEAN]

\* createProjectile() handing on the wind slider's value whether the wind is
\* enabled or not
projectileParams_AnyWind(ps) ==
    [velocity      |-> ps.velocity,
     angle         |-> ps.angle,
     mass          |-> ps.mass,
     diameter      |-> ps.diameter,
     gravity       |-> ps.gravity,
     airResistance |-> ps.airResistance,
     windSpeed     |-> ps.windSpeed]

\* createProjectile(): the parameter object built from app.params
projectileParams(ps) ==
    [velocity      |-> ps.velocity,
     angle         |-> ps.angle,
     mass          |-> ps.mass,
     diameter      |-> ps.diameter,
     gravity       |-> ps.gravity,
     airResistance |-> ps.airResistance,
     windSpeed     |-> IF ps.windEnabled THEN ps.windSpeed ELSE 0]

\* createProjectile() under the parameters ps: in multi-projectile mode the
\* new object is referred to by currentProjectile only, otherwise it is the
\* list
createProjectile(list, multi, ps) ==
    LET new == NewProjectile(projectileParams(ps))
    IN  IF multi
        THEN [projectiles |-> list, unlisted |-> <<new>>,
              currentProjectile |-> Unlisted]
        ELSE [projectiles |-> <<new>>, unlisted |-> << >>,
              currentProjectile |-> 1]

\* a control's handler: store the new parameters, then createProjectile()
ChangeParams(ps) ==
    LET c == createProjectile(projectiles, multiProjectileMode, ps)
    IN  /\ params' = ps
        /\ projectiles' = c.projectiles
        /\ unlisted' = c.unlisted
        /\ currentProjectile' = c.currentProjectile
        /\ UNCHANGED <<multiProjectileMode, isPaused, simulationSpeed,
                       showPrediction, prediction, targetVars>>

SetVelocity(v) == ChangeParams([params EXCEPT !.velocity = v])

SetAngle(a) == ChangeParams([params EXCEPT !.angle = a])

SetMass(m) == ChangeParams([params EXCEPT !.mass = m])

SetDiameter(d) == ChangeParams([params EXCEPT !.diameter = d])

SetGravity(g) == ChangeParams([params EXCEPT !.gravity = g])

SetAirResistance(b) == ChangeParams([params EXCEPT !.airResistance = b])

SetWindEnabled(b) == ChangeParams([params EXCEPT !.windEnabled = b])

SetWindSpeed(w) == ChangeParams([params EXCEPT !.windSpeed = w])

SetSimulationSpeed(v) ==
    /\ simulationSpeed' = v
    /\ UNCHANGED <<projectiles, unlisted, currentProjectile, params,
                   multiProjectileMode, isPaused, showPrediction, prediction, targetVars>>

SetMultiProjectileMode(b) ==
    /\ multiProjectileMode' = b
    /\ UNCHANGED <<projectiles, unlisted, currentProjectile, params,
                   isPaused, simulationSpeed, showPrediction, prediction, targetVars>>

\* the clear-projectiles button
ClearProjectiles ==
    /\ projectiles' = << >>
    /\ unlisted' = << >>
    /\ currentProjectile' = Null
    /\ UNCHANGED <<params, multiProjectileMode, isPaused, simulationSpeed,
                   showPrediction, prediction, targetVars>>

\* fireProjectile(): createProjectile(), launch() on the new object and, in
\* multi-projectile mode, push it; the code sets no limit to the list, the
\* model lets it grow to `limit`
fireProjectileWithin(limit) ==
    /\ multiProjectileMode => Len(projectiles) < limit
    /\ UNCHANGED <<params, multiProjectileMode, simulationSpeed,
                   showPrediction, prediction, targetVars>>
    /\ isPaused' = FALSE
    /\ unlisted' = << >>
    /\ LET c == createProjectile(projectiles, multiProjectileMode, params)
       IN  IF multiProjectileMode
           THEN /\ currentProjectile' = Len(c.projectiles) + 1
                /\ projectiles' = Append(c.projectiles,
                                         ProjectileLaunch(c.unlisted[1]))
           ELSE /\ currentProjectile' = 1
                /\ projectiles' = LaunchAt(c.projectiles, 1)

\* fireProjectile(), the list of the model growing to MaxProjectiles at most
fireProjectile == fireProjectileWithin(MaxProjectiles)

togglePause ==
    /\ isPaused' = ~isPaused
    /\ UNCHANGED <<projectiles, unlisted, currentProjectile, params,
                   multiProjectileMode, simulationSpeed,
                   showPrediction, prediction, targetVars>>

\* the places of a list, in list order
Places(list) == [k \in 1..Len(list) |-> k]

RECURSIVE ResetInOrder(_, _)
\* forEach(p => p.reset()) visiting the places in `order`
ResetInOrder(list, order) ==
    IF order = << >> THEN list
    ELSE ResetInOrder(ResetAt(list, Head(order)), Tail(order))

\* this.projectiles.forEach(p => p.reset())
ResetAll(list) == ResetInOrder(list, Places(list))

\* reset() of the controller
reset ==
    /\ UNCHANGED <<params, multiProjectileMode, simulationSpeed,
                   showPrediction, prediction, targetVars>>
    /\ currentProjectile' = Null
    /\ isPaused' = FALSE
    /\ unlisted' = << >>
    /\ projectiles' = IF multiProjectileMode THEN << >>
                                            ELSE ResetAll(projectiles)

RECURSIVE UpdateInOrder(_, _)
\* forEach(projectile => projectile.update()) visiting the places in `order`
UpdateInOrder(list, order) ==
    IF order = << >> THEN list
    ELSE UpdateInOrder(UpdateAt(list, Head(order)), Tail(order))

\* animate(): this.projectiles.forEach(projectile => projectile.update())
UpdateAll(list) == UpdateInOrder(list, Places(list))

\* Math.max(1, Math.round(this.simulationSpeed * 1))
Steps(speed) ==
    LET rounded == (speed + 5) \div 10
    IN  IF rounded > 1 THEN rounded ELSE 1

RECURSIVE UpdateSteps(_, _)
\* animate(): the loop over the steps of one frame
UpdateSteps(list, n) ==
    IF n = 0 THEN list ELSE UpdateSteps(UpdateAll(list), n - 1)

\* animate(): one frame
\* the physics part of the frame
animateUpdate(list, paused, speed) ==
    IF paused THEN list ELSE UpdateSteps(list, Steps(speed))

\* submitToLeaderboard(): the score is added when a target is hit, then
\* targetMode is switched off and a timer is set that switches it on again
submitToLeaderboard(app, answer) ==
    IF ~app.targetMode THEN app
    ELSE LET totalTargets == Len(app.targetSystem.targets)
             hitTargets   == HitCount(app.targetSystem)
             score        == app.targetSystem.score
         IN  [app EXCEPT
                !.localStorage =
                    IF hitTargets > 0
                    THEN addScore(@, score, hitTargets, totalTargets, answer).storage
                    ELSE @,
                !.targetMode = FALSE,
                !.timers = @ + 1]

\* animate(): this.targetMode && projectile.isFlying, after update()
ChecksTargets(mode, projectile) == mode /\ projectile.isFlying

\* the one element of a set of one element
TheOne(S) == CHOOSE e \in S : TRUE

\* animate(): the body of forEach for the projectile at place i: update(),
\* then the check of the targets and of the end of the round.  (`now` is
\* the value of app, `list` the value of the list after update().)
animateProjectile(app, i, answer) ==
    TheOne({
        TheOne({
            LET projectile == list[i]
                updated    == [now EXCEPT !.projectiles = list]
            IN  IF ~ChecksTargets(now.targetMode, projectile)
                THEN updated
                ELSE LET checked ==
                             [updated EXCEPT !.targetSystem =
                                 checkHit(@, projectile.state.x,
                                          projectile.state.y,
                                          (projectile.diameter * 10) \div 2).system]
                         hitAfter == HitCount(checked.targetSystem)
                     IN  IF /\ projectile.hasLanded
                            /\ hitAfter = Len(checked.targetSystem.targets)
                            /\ Len(checked.targetSystem.targets) > 0
                         THEN submitToLeaderboard(checked, answer)
                         ELSE checked
            : list \in {UpdateAt(now.projectiles, i)}})
        : now \in {app}})

RECURSIVE animateInOrder(_, _, _)
\* animate(): this.projectiles.forEach(...), over the places in `order`
animateInOrder(app, order, answer) ==
    IF order = << >> THEN app
    ELSE animateInOrder(animateProjectile(app, Head(order), answer),
                        Tail(order), answer)

RECURSIVE animateSteps(_, _, _)
\* animate(): the loop over the steps of one frame
animateSteps(app, n, answer) ==
    IF n = 0 THEN app
    ELSE animateSteps(animateInOrder(app, Places(app.projectiles), answer),
                      n - 1, answer)

\* animate(): the updates of one frame
animateFrame(app, paused, speed, answer) ==
    IF paused THEN app ELSE animateSteps(app, Steps(speed), answer)

\* the answers given to the prompt of addScore()
Answers == {"Player"}

\* animate(): one frame: the updates with the checks of target mode, then
\* render() with its prediction
animate ==
    /\ UNCHANGED <<unlisted, currentProjectile, multiProjectileMode,
                   isPaused, simulationSpeed, showPrediction>>
    /\ \E answer \in Answers :
         LET frame == animateFrame(
                          [projectiles |-> projectiles,
                           targetMode |-> targetMode,
                           targetSystem |-> targetSystem,
                           localStorage |-> localStorage,
                           timers |-> timers],
                          isPaused, simulationSpeed, answer)
             drawn == drawPrediction(frame.projectiles, params,
                                     showPrediction, prediction)
         IN  /\ projectiles' = drawn.projectiles
             /\ params' = drawn.params
             /\ prediction' = drawn.points
             /\ targetMode' = frame.targetMode
             /\ targetSystem' = frame.targetSystem
             /\ localStorage' = frame.localStorage
             /\ timers' = frame.timers

(***************************************************************************)
(* Spec: the controller, from the state its constructor and its controls   *)
(* leave: parameters chosen, one idle projectile created from them.        *)
(***************************************************************************)
Init ==
    /\ params \in AppParams
    /\ projectiles = <<NewProjectile(projectileParams(params))>>
    /\ unlisted = << >>
    /\ currentProjectile = 1
    /\ multiProjectileMode = FALSE
    /\ isPaused = FALSE
    /\ simulationSpeed = 10
    /\ showPrediction = FALSE
    /\ prediction = << >>
    /\ InitTargetMode

Next ==
    \/ \E v \in Velocities : SetVelocity(v)
    \/ \E a \in Angles : SetAngle(a)
    \/ \E m \in Masses : SetMass(m)
    \/ \E d \in Diameters : SetDiameter(d)
    \/ \E g \in Gravities : SetGravity(g)
    \/ \E b \in BOOLEAN : SetAirResistance(b)
    \/ \E b \in BOOLEAN : SetWindEnabled(b)
    \/ \E w \in WindSpeeds : SetWindSpeed(w)
    \/ \E v \in SimSpeeds : SetSimulationSpeed(v)
    \/ \E b \in BOOLEAN : SetMultiProjectileMode(b)
    \/ ClearProjectiles
    \/ fireProjectile
    \/ togglePause
    \/ reset
    \/ animate

Spec == Init /\ [][Next]_vars

(***************************************************************************)
(* SpecLong: one Projectile instance on a flight of more than               *)
(* maxTrajectoryPoints ticks (Moon gravity), driven through its methods.    *)
(***************************************************************************)
LongFlightParams ==
    [velocity      : {10000},
     angle         : {60, 90},
     mass          : {10},
     diameter      : {50},
     gravity       : {1620},
     airResistance : BOOLEAN,
     windSpeed     : {0, 50}]

InitLong ==
    /\ projectiles \in {<<NewProjectile(ps)>> : ps \in LongFlightParams}
    /\ unlisted = << >>
    /\ currentProjectile = Null
    /\ params = DefaultParams
    /\ multiProjectileMode = TRUE
    /\ isPaused = FALSE
    /\ simulationSpeed = 10
    /\ showPrediction = FALSE
    /\ prediction = << >>
    /\ InitTargetMode

NextLong ==
    \/ Launch(1)
    \/ Update(1)
    \/ Reset(1)

SpecLong == InitLong /\ [][NextLong]_vars

(***************************************************************************)
(* SpecPred: the controller in single-projectile mode with the prediction  *)
(* overlay.  The parameters: short flights under Jupiter gravity with and  *)
(* without drag and wind; a flight of more than 600 ticks under Moon       *)
(* gravity with wind; a launch under Moon gravity fast enough to stay      *)
(* above ground for more than 30 s.                                        *)
(***************************************************************************)
PredParams ==
    [velocity      : {10000},
     angle         : {60},
     mass          : {10},
     diameter      : {50},
     gravity       : {24790},
     airResistance : BOOLEAN,
     windSpeed     : {50},
     windEnabled   : BOOLEAN]
    \cup
    {[velocity |-> 10000, angle |-> 60, mass |-> 10, diameter |-> 50,
      gravity |-> 1620, airResistance |-> FALSE, windSpeed |-> 50,
      windEnabled |-> TRUE],
     [velocity |-> 30000, angle |-> 60, mass |-> 10, diameter |-> 50,
      gravity |-> 1620, airResistance |-> FALSE, windSpeed |-> 50,
      windEnabled |-> FALSE]}

\* the state the constructor and the controls leave: parameters chosen, one
\* idle projectile created from them, the show-prediction checkbox set or
\* not, the simulation speed at 2.0x
InitPred ==
    /\ params \in PredParams
    /\ projectiles = <<NewProjectile(projectileParams(params))>>
    /\ unlisted = << >>
    /\ currentProjectile = 1
    /\ multiProjectileMode = FALSE
    /\ isPaused = FALSE
    /\ simulationSpeed = 20
    /\ showPrediction \in BOOLEAN
    /\ prediction = << >>
    /\ InitTargetMode

NextPred ==
    \/ fireProjectile
    \/ reset
    \/ animate

SpecPred == InitPred /\ [][NextPred]_vars

(***************************************************************************)
(* ConfigurationManager                                                    *)
(***************************************************************************)
\* Object.assign(target, source)
ObjectAssign(target, source) ==
    [k \in DOMAIN target \cup DOMAIN source |->
        IF k \in DOMAIN source THEN source[k] ELSE target[k]]

\* loadConfigurations(): the configurations in the browser's storage: one
\* saved by the application with the overlay on, one of an earlier version
\* without wind fields and visual settings, and entries whose mass,
\* diameter or gravity is not positive
StoredConfigurations ==
    << [params |-> [velocity |-> 1000, angle |-> 60, mass |-> 10,
                    diameter |-> 50, gravity |-> 24790,
                    airResistance |-> TRUE, windSpeed |-> 50,
                    windEnabled |-> TRUE],
        visual |-> [showPrediction |-> TRUE]],
       [params |-> [velocity |-> 2000, angle |-> 30, mass |-> 10,
                    diameter |-> 50, gravity |-> 24790,
                    airResistance |-> TRUE]],
       [params |-> [velocity |-> 1000, angle |-> 60, mass |-> 0,
                    diameter |-> 50, gravity |-> 24790,
                    airResistance |-> FALSE, windSpeed |-> 0,
                    windEnabled |-> FALSE],
        visual |-> [showPrediction |-> FALSE]],
       [params |-> [velocity |-> 1000, angle |-> 60, mass |-> 10,
                    diameter |-> 0, gravity |-> 24790,
                    airResistance |-> TRUE, windSpeed |-> 0,
                    windEnabled |-> FALSE],
        visual |-> [showPrediction |-> FALSE]],
       [params |-> [velocity |-> 1000, angle |-> 60, mass |-> 10,
                    diameter |-> 50, gravity |-> -1620,
                    airResistance |-> FALSE, windSpeed |-> 0,
                    windEnabled |-> FALSE],
        visual |-> [showPrediction |-> FALSE]] >>

\* loadConfiguration(index): indices count from 0
loadConfiguration(index) ==
    IF index < 0 \/ index >= Len(StoredConfigurations)
    THEN UNCHANGED vars
    ELSE LET config   == StoredConfigurations[index + 1]
             assigned == ObjectAssign(params, config.params)
             c == createProjectile(projectiles, multiProjectileMode, assigned)
         IN  /\ params' = assigned
             /\ showPrediction' = IF "visual" \in DOMAIN config
                                  THEN config.visual.showPrediction
                                  ELSE showPrediction
             /\ projectiles' = c.projectiles
             /\ unlisted' = c.unlisted
             /\ currentProjectile' = c.currentProjectile
             /\ UNCHANGED <<multiProjectileMode, isPaused, simulationSpeed,
                            prediction, targetVars>>

(***************************************************************************)
(* SpecConfig: the controller, started with its constructor's parameters,  *)
(* with stored configurations loaded, in single-projectile mode.           *)
(***************************************************************************)
InitConfig ==
    /\ params = DefaultParams
    /\ projectiles = <<NewProjectile(projectileParams(params))>>
    /\ unlisted = << >>
    /\ currentProjectile = 1
    /\ multiProjectileMode = FALSE
    /\ isPaused = FALSE
    /\ simulationSpeed = 10
    /\ showPrediction = FALSE
    /\ prediction = << >>
    /\ InitTargetMode

NextConfig ==
    \/ \E index \in 0..Len(StoredConfigurations) : loadConfiguration(index)
    \/ fireProjectile
    \/ reset
    \/ animate

SpecConfig == InitConfig /\ [][NextConfig]_vars

(***************************************************************************)
(* SpecMulti: the controller with its constructor's parameters, fired      *)
(* repeatedly in single- and multi-projectile mode.                        *)
(***************************************************************************)
NextMulti ==
    \/ \E b \in BOOLEAN : SetMultiProjectileMode(b)
    \/ ClearProjectiles
    \/ fireProjectileWithin(MaxFired)
    \/ reset
    \/ animate

SpecMulti == InitConfig /\ [][NextMulti]_vars

(***************************************************************************)
(* Target practice: the handlers of the controller                         *)
(***************************************************************************)
\* activateTargetMode(), from switchTab('target-practice')
activateTargetMode(draws) ==
    /\ targetMode' = TRUE
    /\ targetSystem' = createRandomTargets(targetSystem, draws)
    /\ UNCHANGED <<projectiles, unlisted, currentProjectile, params,
                   multiProjectileMode, isPaused, simulationSpeed,
                   showPrediction, prediction, localStorage, timers>>

\* deactivateTargetMode(), from switchTab() to any other tab
deactivateTargetMode ==
    /\ targetMode' = FALSE
    /\ UNCHANGED <<projectiles, unlisted, currentProjectile, params,
                   multiProjectileMode, isPaused, simulationSpeed,
                   showPrediction, prediction, targetSystem, localStorage,
                   timers>>

\* the New Targets button
newTargets(draws) ==
    /\ targetSystem' = createRandomTargets(targetSystem, draws)
    /\ UNCHANGED <<projectiles, unlisted, currentProjectile, params,
                   multiProjectileMode, isPaused, simulationSpeed,
                   showPrediction, prediction, targetMode, localStorage,
                   timers>>

\* the callback of the timer set by submitToLeaderboard()
targetModeTimeout ==
    /\ timers > 0
    /\ timers' = timers - 1
    /\ targetMode' = TRUE
    /\ UNCHANGED <<projectiles, unlisted, currentProjectile, params,
                   multiProjectileMode, isPaused, simulationSpeed,
                   showPrediction, prediction, targetSystem, localStorage>>

(***************************************************************************)
(* SpecPractice: the controller in target practice.  The parameters give   *)
(* a flight on the integrator path; the five targets of a round are drawn  *)
(* on that flight's way, or four of them there and one out of reach.       *)
(***************************************************************************)
PracticeParams ==
    [velocity |-> 30000, angle |-> 45, mass |-> 10, diameter |-> 50,
     gravity |-> 24790, airResistance |-> FALSE, windSpeed |-> 50,
     windEnabled |-> TRUE]

\* a draw of Math.random that puts a target on the way of the flight
OnTheWay == [x |-> 21900, y |-> 8800, radius |-> 1500]

\* a draw of Math.random that puts a target out of the flight's reach
OutOfReach == [x |-> 70000, y |-> 20000, radius |-> 1000]

\* the draws of createRandomTargets(5)
PracticeDraws ==
    {[k \in 1..5 |-> IF k <= n THEN OnTheWay ELSE OutOfReach] : n \in 4..5}

InitPractice ==
    /\ params = PracticeParams
    /\ projectiles = <<NewProjectile(projectileParams(params))>>
    /\ unlisted = << >>
    /\ currentProjectile = 1
    /\ multiProjectileMode = FALSE
    /\ isPaused = FALSE
    /\ simulationSpeed = 20
    /\ showPrediction = FALSE
    /\ prediction = << >>
    /\ InitTargetMode

NextPractice ==
    \/ \E draws \in PracticeDraws :
         targetSystem.score < MaxScore /\ activateTargetMode(draws)
    \/ deactivateTargetMode
    \/ \E draws \in PracticeDraws :
         targetSystem.score < MaxScore /\ newTargets(draws)
    \/ fireProjectile
    \/ reset
    \/ animate

SpecPractice == InitPractice /\ [][NextPractice]_vars

(***************************************************************************)
(* SpecTargetSystem: a TargetSystem on its own, under any sequence of its  *)
(* methods.                                                                *)
(***************************************************************************)
\* the places and radii given to addTarget() and drawn by
\* createRandomTargets()
Places2 == {[x |-> 20000, y |-> 5000, radius |-> 1500],
            [x |-> 22000, y |-> 5000, radius |-> 1000]}

\* the positions checkHit() is called with
Probes == {[x |-> 20500, y |-> 5500], [x |-> 21200, y |-> 5000],
           [x |-> 40000, y |-> 5000]}

TargetUnchanged ==
    UNCHANGED <<projectiles, unlisted, currentProjectile, params,
                multiProjectileMode, isPaused, simulationSpeed,
                showPrediction, prediction, targetMode, localStorage, timers>>

\* targetSystem.addTarget(x, y, radius)
AddTarget(place) ==
    /\ Len(targetSystem.targets) < MaxTargets
    /\ targetSystem' = addTarget(targetSystem, place.x, place.y, place.radius)
    /\ TargetUnchanged

\* targetSystem.createRandomTargets(count)
CreateRandomTargets(draws) ==
    /\ targetSystem.score < MaxScore
    /\ targetSystem' = createRandomTargets(targetSystem, draws)
    /\ TargetUnchanged

\* targetSystem.checkHit(x, y, radius)
CheckHit(probe, radius) ==
    /\ targetSystem' = checkHit(targetSystem, probe.x, probe.y, radius).system
    /\ TargetUnchanged

\* targetSystem.reset()
ResetTargets ==
    /\ targetSystem' = TargetSystemReset(targetSystem)
    /\ TargetUnchanged

\* targetSystem.clear()
ClearTargets ==
    /\ targetSystem' = TargetSystemClear(targetSystem)
    /\ TargetUnchanged

NextTargetSystem ==
    \/ \E place \in Places2 : AddTarget(place)
    \/ \E count \in 0..MaxTargets : \E draws \in [1..count -> Places2] :
         CreateRandomTargets(draws)
    \/ \E probe \in Probes : CheckHit(probe, 250)
    \/ ResetTargets
    \/ ClearTargets

SpecTargetSystem == InitConfig /\ [][NextTargetSystem]_vars

(***************************************************************************)
(* SpecBoard: the leaderboard under any sequence of addScore() and         *)
(* clearLeaderboard(), and of submitToLeaderboard() with its timer, in     *)
(* target practice with two targets, none or one of them hit.              *)
(***************************************************************************)
\* the rounds addScore() is called for: k targets of five hit, 50 points
\* each
Rounds == {[score |-> 50 * k, targetsHit |-> k, totalTargets |-> 5] :
              k \in 1..MaxHits}

BoardUnchanged ==
    UNCHANGED <<projectiles, unlisted, currentProjectile, params,
                multiProjectileMode, isPaused, simulationSpeed,
                showPrediction, prediction>>

\* leaderboard.addScore(score, targetsHit, totalTargets)
AddScore(round, answer) ==
    /\ localStorage' = addScore(localStorage, round.score, round.targetsHit,
                                round.totalTargets, answer).storage
    /\ BoardUnchanged
    /\ UNCHANGED <<targetMode, targetSystem, timers>>

\* leaderboard.clearLeaderboard(), from the Clear Leaderboard button
ClearLeaderboard ==
    /\ localStorage' = clearLeaderboard(localStorage)
    /\ BoardUnchanged
    /\ UNCHANGED <<targetMode, targetSystem, timers>>

\* app.submitToLeaderboard()
SubmitToLeaderboard(answer) ==
    /\ LET app == submitToLeaderboard(
                      [projectiles |-> projectiles,
                       targetMode |-> targetMode,
                       targetSystem |-> targetSystem,
                       localStorage |-> localStorage,
                       timers |-> timers],
                      answer)
       IN  /\ targetMode' = app.targetMode
           /\ localStorage' = app.localStorage
           /\ timers' = app.timers
    /\ BoardUnchanged
    /\ UNCHANGED targetSystem

InitBoard ==
    /\ params = DefaultParams
    /\ projectiles = <<NewProjectile(projectileParams(params))>>
    /\ unlisted = << >>
    /\ currentProjectile = 1
    /\ multiProjectileMode = FALSE
    /\ isPaused = FALSE
    /\ simulationSpeed = 10
    /\ showPrediction = FALSE
    /\ prediction = << >>
    /\ targetMode = TRUE
    /\ \E probe \in {OnTheWay, [x |-> 0, y |-> 0]} :
         targetSystem =
            checkHit(createRandomTargets(NewTargetSystem,
                                         <<OnTheWay, OutOfReach>>),
                     probe.x, probe.y, 250).system
    /\ localStorage = << >>
    /\ timers = 0

NextBoard ==
    \/ \E round \in Rounds : \E answer \in Answers : AddScore(round, answer)
    \/ ClearLeaderboard
    \/ \E answer \in Answers : SubmitToLeaderboard(answer)
    \/ targetModeTimeout

SpecBoard == InitBoard /\ [][NextBoard]_vars

(***************************************************************************)
(* SpecSpeed: the controller with the speed slider moved over its range,   *)
(* 0.1x to 2.0x, during an integrated flight.                              *)
(***************************************************************************)
\* the values of the sim-speed slider, in 1/10
SliderSpeeds == {1, 5, 10, 20}

NextSpeed ==
    \/ \E v \in SliderSpeeds : SetSimulationSpeed(v)
    \/ fireProjectile
    \/ togglePause
    \/ animate

SpecSpeed == InitPractice /\ [][NextSpeed]_vars

(***************************************************************************)
(* SpecWind: the controller with its constructor's parameters and the      *)
(* air-resistance and wind controls, the wind slider at 0 or at 5 m/s.     *)
(***************************************************************************)
\* the values of the wind-speed slider, in 0.1 m/s
SliderWinds == {0, 50}

NextWind ==
    \/ \E b \in BOOLEAN : SetAirResistance(b)
    \/ \E b \in BOOLEAN : SetWindEnabled(b)
    \/ \E w \in SliderWinds : SetWindSpeed(w)
    \/ fireProjectile
    \/ reset
    \/ animate

SpecWind == InitConfig /\ [][NextWind]_vars

(***************************************************************************)
(* SpecRest: one Projectile constructed at rest (velocity 0) or with a     *)
(* small velocity, with and without drag and wind, under any sequence of   *)
(* launch(), update() and reset().                                         *)
(***************************************************************************)
RestParams ==
    [velocity      : {0, 1000},
     angle         : {45, 90},
     mass          : {10},
     diameter      : {50},
     gravity       : {1620, 9810, 24790},
     airResistance : BOOLEAN,
     windSpeed     : {0, 50}]

InitRest ==
    /\ projectiles \in {<<NewProjectile(ps)>> : ps \in RestParams}
    /\ unlisted = << >>
    /\ currentProjectile = Null
    /\ params = DefaultParams
    /\ multiProjectileMode = TRUE
    /\ isPaused = FALSE
    /\ simulationSpeed = 10
    /\ showPrediction = FALSE
    /\ prediction = << >>
    /\ InitTargetMode

NextRest ==
    \/ Launch(1)
    \/ Update(1)
    \/ Reset(1)

SpecRest == InitRest /\ [][NextRest]_vars

(***************************************************************************)
(* Properties                                                              *)
(***************************************************************************)
\* the places of the list that hold an object
Live == 1..Len(projectiles)

\* angle strictly between 0 and 90 degrees, positive launch speed
ProperLaunch(p) == p.v0 > 0 /\ p.angle > 0 /\ p.angle < 90

\* the projectile takes the closed-form path of update()
NoResistance(p) == ~p.airResistance /\ p.windSpeed = 0

\* C1: isFlying and hasLanded are never both true, and both are false after
\* construction and after reset().
C1_FlagsExclusive ==
    /\ \A i \in Live : ~projectiles[i].isFlying /\ ~projectiles[i].hasLanded
    /\ [](\A i \in Live : ~(projectiles[i].isFlying /\ projectiles[i].hasLanded))
    /\ [][\A i \in Live :
            Reset(i) => ~projectiles'[i].isFlying /\ ~projectiles'[i].hasLanded]_vars

\* one instance has landed after a flight while the other is in flight
C1_Witness ==
    \E i, j \in Live :
        /\ projectiles[i].hasLanded
        /\ Len(projectiles[i].trajectory) > 1
        /\ projectiles[j].isFlying

\* C2: update() on a landed projectile changes none of its fields (state,
\* time, range, trajectory, maxHeight).
C2_LandingTerminal ==
    [][\A i \in Live :
         projectiles[i].hasLanded /\ Update(i) => projectiles'[i] = projectiles[i]]_vars

\* a projectile that landed after a flight of several ticks
C2_Witness ==
    \E i \in Live :
        /\ projectiles[i].hasLanded
        /\ projectiles[i].range > 0
        /\ projectiles[i].time > 2 * dt

\* C3: the first update() after launch() of a projectile with v0 > 0 and an
\* angle strictly between 0 and 90 degrees does not detect landing.
C3_NoFalseLanding ==
    [][\A i \in Live :
         (/\ ProperLaunch(projectiles[i])
          /\ projectiles[i].isFlying
          /\ projectiles[i].time = 0
          /\ Update(i))
         => projectiles'[i].isFlying /\ ~projectiles'[i].hasLanded]_vars

\* C4: without resistance, after every update() tick of a flying projectile
\* the state is the closed form evaluated at the projectile's time after
\* the tick.
C4_AnalyticalConsistency ==
    [][\A i \in Live :
         (/\ NoResistance(projectiles[i])
          /\ projectiles[i].isFlying
          /\ Update(i))
         => projectiles'[i].state =
              calculateNoAirResistance(projectiles[i].v0, projectiles[i].angle,
                                       projectiles[i].gravity,
                                       projectiles'[i].time)]_vars

\* C5: of two landed flights with the same v0, angle and g and no wind, the
\* one with drag has the strictly smaller range.
C5_DragReducesRange ==
    \A i, j \in Live :
        (/\ projectiles[i].v0 = projectiles[j].v0
         /\ projectiles[i].angle = projectiles[j].angle
         /\ projectiles[i].gravity = projectiles[j].gravity
         /\ ProperLaunch(projectiles[i])
         /\ projectiles[i].windSpeed = 0
         /\ projectiles[j].windSpeed = 0
         /\ projectiles[i].airResistance
         /\ ~projectiles[j].airResistance
         /\ projectiles[i].hasLanded
         /\ projectiles[j].hasLanded)
        => projectiles[i].range < projectiles[j].range

\* C6, as claimed: no operation of the controller on an instance that stays
\* in the list (update() in animate, reset() in the controller's reset)
\* makes its hasLanded false again.
C6_NeverReverts ==
    [][(animate \/ (reset /\ ~multiProjectileMode))
       => \A i \in Live :
            projectiles[i].hasLanded => projectiles'[i].hasLanded]_vars

\* C6, amended: update() never makes hasLanded false again; it is reset()
\* (and launch(), which calls it) that clears the flag.
C6_UpdateNeverReverts ==
    [][animate
       => \A i \in Live :
            projectiles[i].hasLanded => projectiles'[i].hasLanded]_vars

\* a landed projectile in the list of a running (not paused) simulation
C6_Witness ==
    /\ ~isPaused
    /\ \E i \in Live : projectiles[i].hasLanded /\ projectiles[i].time > dt

\* C7: no update() tick lowers maxHeight.
C7_MonotonicMaxHeight ==
    [][\A i \in Live :
         Update(i) => projectiles'[i].maxHeight >= projectiles[i].maxHeight]_vars

\* a projectile below the highest point it reached: in descent, or landed
C7_Witness ==
    \E i \in Live :
        /\ projectiles[i].maxHeight > 0
        /\ projectiles[i].state.y < projectiles[i].maxHeight
        /\ projectiles[i].hasLanded

\* C8: the trajectory never holds more than maxTrajectoryPoints samples; a
\* tick of a flying projectile whose trajectory is full leaves the
\* trajectory as it is and advances the flight.
C8_TrajectoryCap ==
    /\ [](\A i \in Live : Len(projectiles[i].trajectory) <= maxTrajectoryPoints)
    /\ [][\A i \in Live :
            (/\ Len(projectiles[i].trajectory) = maxTrajectoryPoints
             /\ projectiles[i].isFlying
             /\ Update(i))
            => /\ projectiles'[i].trajectory = projectiles[i].trajectory
               /\ projectiles'[i].time = projectiles[i].time + dt
               /\ projectiles'[i].state # projectiles[i].state]_vars

\* a flight that went on after its trajectory was full
C8_Witness ==
    \E i \in Live :
        /\ Len(projectiles[i].trajectory) = maxTrajectoryPoints
        /\ projectiles[i].time > (maxTrajectoryPoints + 1) * dt

\* the parameters of two projectiles are the same
SameParameters(p, q) ==
    /\ p.v0 = q.v0
    /\ p.angle = q.angle
    /\ p.mass = q.mass
    /\ p.diameter = q.diameter
    /\ p.gravity = q.gravity
    /\ p.airResistance = q.airResistance
    /\ p.windSpeed = q.windSpeed

RECURSIVE Times(_, _)
\* n update() calls on one projectile
Times(p, n) == IF n = 0 THEN p ELSE Times(ProjectileUpdate(p), n - 1)

\* every order in which the places of a list can be visited
Orders(list) ==
    {o \in [1..Len(list) -> 1..Len(list)] :
        \A a, b \in 1..Len(list) : a # b => o[a] # o[b]}

\* C10: a method called on one projectile leaves the other projectiles as
\* they are: whatever the order in which a tick visits the list, the result
\* is the one of the list order; a frame of animate leaves each projectile
\* as its own update() calls leave it; the launch() of fireProjectile and
\* the reset() calls of the controller's reset act on their own instance
\* only.
C10_Independence ==
    /\ [](\A o \in Orders(projectiles) :
            UpdateInOrder(projectiles, o) = UpdateAll(projectiles))
    /\ [][animate /\ ~isPaused
          => \A i \in Live :
               projectiles'[i] = Times(projectiles[i], Steps(simulationSpeed))]_vars
    /\ [][fireProjectile /\ multiProjectileMode
          => \A i \in Live : projectiles'[i] = projectiles[i]]_vars
    /\ [][reset /\ ~multiProjectileMode
          => \A i \in Live : projectiles'[i] = ProjectileReset(projectiles[i])]_vars

\* two projectiles with different parameters in flight in the same list
C10_Witness ==
    /\ Len(projectiles) >= 2
    /\ ~SameParameters(projectiles[1], projectiles[2])
    /\ projectiles[1].isFlying
    /\ projectiles[2].isFlying
    /\ projectiles[1].time > 0
    /\ projectiles[2].time > 0

\* C11: drawing the prediction changes no field of a listed projectile and
\* no field of the parameters: a frame with the overlay leaves the
\* projectiles and the parameters as the same frame without it does.
C11_PredictionNonMutating ==
    [][animate /\ showPrediction
       => /\ projectiles' = animateUpdate(projectiles, isPaused, simulationSpeed)
          /\ params' = params]_vars

\* a prediction has been drawn during a flight that is still going on
C11_Witness ==
    /\ showPrediction
    /\ Len(prediction) > 1
    /\ \E i \in Live : projectiles[i].isFlying /\ projectiles[i].time > 2 * dt

\* C12: calculateTrajectory() terminates for the parameters at hand and
\* returns at most 600 points, also for a flight that stays above ground
\* for the whole simulated span.
C12_PredictionBounded ==
    /\ Len(prediction) <= 600
    /\ showPrediction => /\ PredictorLoop(params).done
                         /\ Len(PredictorLoop(params).points) <= 600

\* a prediction of 600 points whose last point is not below ground
C12_Witness ==
    /\ Len(prediction) = 600
    /\ prediction[600].y >= 0

\* the horizontal distance of one predictor sub-step, at the larger of the
\* launch and the landing horizontal speed
SubStepDistance(p) ==
    LET v0x == Abs(MulDiv(p.v0, Cos(p.angle), 10000))
        vx  == Abs(p.state.vx)
    IN  MulDiv(IF vx > v0x THEN vx ELSE v0x, PredictorDt, 1000) + 1

\* C13: once the projectile created from the parameters has landed, the x of
\* the last point predicted for these parameters is within one predictor
\* sub-step's horizontal distance of the projectile's range.
C13_PredictionApproximatesRange ==
    \A i \in Live :
        (projectiles[i].hasLanded /\ prediction # << >>)
        => Abs(prediction[Len(prediction)].x - projectiles[i].range)
             <= SubStepDistance(projectiles[i])

\* the Projectile objects there are: the listed ones and the unlisted one
Objects ==
    {projectiles[i] : i \in Live} \cup {unlisted[i] : i \in 1..Len(unlisted)}

\* C14: no Projectile exists (constructed, launched or stepped) whose mass,
\* diameter or gravity is not positive, whatever parameters reach
\* createProjectile(), those restored by loadConfiguration() included.
C14_InvalidParametersRejected ==
    \A p \in Objects : p.mass > 0 /\ p.diameter > 0 /\ p.gravity > 0

\* the body parameters of two projectiles are the same and p is as reset()
\* leaves a projectile, but for isFlying
FreshFrom(p, q) ==
    /\ SameParameters(p, q)
    /\ ~p.hasLanded
    /\ p.time = 0
    /\ p.trajectory = << >>
    /\ p.maxHeight = 0
    /\ p.range = 0
    /\ p.state = calculateNoAirResistance(q.v0, q.angle, q.gravity, 0)
    /\ p.state = [x  |-> 0,
                  y  |-> 0,
                  vx |-> MulDiv(q.v0, Cos(q.angle), 10000),
                  vy |-> MulDiv(q.v0, Sin(q.angle), 10000)]

\* C15: reset() in any state (Idle, Flying, Landed) yields Idle: both flags
\* false, time 0, trajectory empty, maxHeight 0, range 0, the kinematic
\* state of the closed form at t = 0, the body parameters as they were.
C15_ResetYieldsIdle ==
    [][\A i \in Live :
         Reset(i) => /\ ~projectiles'[i].isFlying
                     /\ FreshFrom(projectiles'[i], projectiles[i])]_vars

\* a projectile for reset() to clear: landed, with a trajectory history, a
\* max height and a range
C15_Witness ==
    \E i \in Live :
        /\ projectiles[i].hasLanded
        /\ Len(projectiles[i].trajectory) > 2
        /\ projectiles[i].maxHeight > 0
        /\ projectiles[i].range > 0
        /\ projectiles[i].state.vy < 0

\* C16: launch() in any state (Idle, Flying, Landed) yields Flying with
\* hasLanded false, time 0, trajectory empty, maxHeight 0, range 0 and the
\* initial kinematic state: a re-launch restarts the flight from the origin.
C16_LaunchRestarts ==
    [][\A i \in Live :
         Launch(i) => /\ projectiles'[i].isFlying
                      /\ FreshFrom(projectiles'[i], projectiles[i])]_vars

\* a projectile just launched: flying at time 0 from the origin
C16_Witness ==
    \E i \in Live :
        /\ projectiles[i].isFlying
        /\ projectiles[i].time = 0
        /\ projectiles[i].state.x = 0
        /\ projectiles[i].trajectory = << >>

\* C17: on the tick that detects landing, y is clamped to 0, hasLanded
\* becomes true, isFlying false and range the x of that tick's state; as
\* long as hasLanded is false, range is 0.
C17_RangeAtLanding ==
    /\ [](\A i \in Live : ~projectiles[i].hasLanded => projectiles[i].range = 0)
    /\ [][\A i \in Live :
            (/\ Update(i)
             /\ projectiles[i].isFlying
             /\ UpdateLanded(UpdatePhysics(projectiles[i]),
                             projectiles[i].time + 16))
            => /\ projectiles'[i].state.y = 0
               /\ projectiles'[i].hasLanded
               /\ ~projectiles'[i].isFlying
               /\ projectiles'[i].range = projectiles'[i].state.x
               /\ projectiles'[i].state.x = UpdatePhysics(projectiles[i]).x]_vars

\* a projectile landed down range, where its last tick took it from above
\* ground to below
C17_Witness ==
    \E i \in Live :
        /\ projectiles[i].hasLanded
        /\ projectiles[i].range > 0
        /\ projectiles[i].range = projectiles[i].state.x
        /\ projectiles[i].state.vx > 0
        /\ Len(projectiles[i].trajectory) > 2
        /\ projectiles[i].trajectory[Len(projectiles[i].trajectory)].y > 0

\* C18: a launch at angle 0 (no vertical speed) is not landed at the launch
\* instant, and whatever the launch, a landed projectile's time is past the
\* 0.01 s guard.
C18_ZeroAngleGuard ==
    \A i \in Live :
        /\ (projectiles[i].angle = 0 /\ projectiles[i].time = 0)
           => ~projectiles[i].hasLanded
        /\ projectiles[i].hasLanded => projectiles[i].time > 10

\* a projectile launched at angle 0 that has landed, down range
C18_Witness ==
    \E i \in Live :
        /\ projectiles[i].angle = 0
        /\ projectiles[i].hasLanded
        /\ projectiles[i].range > 0

\* C19: an update() tick of a flying projectile advances time by exactly
\* 0.016 s (16 ms), whatever the simulation speed or the pause state; a
\* tick of an idle or landed projectile leaves time as it is; so the time
\* is 16 ms times the number of ticks since launch, which the trajectory
\* counts until it is full.
C19_FixedTimeStep ==
    /\ [][\A i \in Live :
            Update(i) => projectiles'[i].time =
                           IF projectiles[i].isFlying
                           THEN projectiles[i].time + 16
                           ELSE projectiles[i].time]_vars
    /\ [](\A i \in Live :
            /\ projectiles[i].time % 16 = 0
            /\ Len(projectiles[i].trajectory) < maxTrajectoryPoints
               => projectiles[i].time = 16 * Len(projectiles[i].trajectory))

\* a flight past tick 500, still going on
C19_Witness ==
    \E i \in Live :
        /\ projectiles[i].isFlying
        /\ projectiles[i].time > 16 * (maxTrajectoryPoints + 2)

\* C20: in multi-projectile mode the list of simulated projectiles holds
\* 6 projectiles at most, however often the projectile is fired.
C20_AtMostSixProjectiles ==
    multiProjectileMode => Len(projectiles) <= 6

\* a round of target practice is complete: there is a target and every
\* target is marked hit
RoundComplete(system) ==
    /\ Len(system.targets) > 0
    /\ HitCount(system) = Len(system.targets)

\* C21: in target practice, the frame in which a projectile lands with
\* every target hit (at least one target, so at least one hit) submits the
\* score: submitToLeaderboard() runs, which sets its timer, and addScore()
\* leaves an entry in the storage.
C21_ScoreSubmitted ==
    [][animate /\ targetMode /\ ~isPaused
       /\ (\E i \in Live : projectiles[i].isFlying /\ projectiles'[i].hasLanded)
       /\ RoundComplete(targetSystem')
       => timers' > timers /\ localStorage' # << >>]_vars


\* the list a reader of the storage gets
Stored == getLeaderboard(localStorage)

\* the number of entries of a list that have the score v
CountOf(list, v) == Cardinality({k \in DOMAIN list : list[k].score = v})

\* list holds the highest scores of `before` and one more score s: nothing
\* but a lowest score is missing, and that only from a list that is full
HighestOf(list, before, s) ==
    /\ Len(list) = IF Len(before) < maxEntries THEN Len(before) + 1
                                               ELSE maxEntries
    /\ \A k \in DOMAIN list :
         CountOf(list, list[k].score)
            <= CountOf(before, list[k].score) + IF list[k].score = s THEN 1 ELSE 0
    /\ \A v \in {before[k].score : k \in DOMAIN before} \cup {s} :
         CountOf(list, v) < CountOf(before, v) + (IF v = s THEN 1 ELSE 0)
            => \A k \in DOMAIN list : list[k].score >= v

C23_SlowMotionFewerTicks ==
    [][animate /\ ~isPaused /\ simulationSpeed < 10
       => \A i \in Live :
            projectiles[i].isFlying /\ projectiles'[i].isFlying
               => projectiles'[i].time - projectiles[i].time < Steps(10) * dt]_vars

\* C24: an iteration of the predictor moves its state on by the predictor's
\* sub-step of 0.05 s, on either path: the third point of a prediction lies
\* 0.05 s of the horizontal velocity held at the second point beyond it (up
\* to the rounding of the positions).
C24_PredictorSubStep ==
    showPrediction /\ Len(prediction) >= 3
       => LET first == PredictorIteration(params, PredictorStart(params))
          IN  Abs((prediction[3].x - prediction[2].x)
                  - MulDiv(first.state.vx, PredictorDt, 1000)) <= 1

\* C25: the predictor and a live projectile created from the parameters
\* the app holds take the same path: the integrator is selected by both or
\* by neither, with the same effective wind speed, and from the same state
\* at the same time both compute the same next state.  In
\* single-projectile mode the current projectile is such a projectile.
C25_SameDispatch ==
    /\ LET p == NewProjectile(projectileParams(params))
       IN  /\ ProjectileIntegrates(p) <=> PredictorIntegrates(params)
           /\ p.windSpeed = PredictorWind(params)
           /\ ProjectileIntegrates(p)
                 <=> (params.airResistance \/ p.windSpeed # 0)
    /\ ~multiProjectileMode /\ currentProjectile \in Live
       => LET q == projectiles[currentProjectile]
          IN  /\ ProjectileIntegrates(q) <=> PredictorIntegrates(params)
              /\ q.windSpeed = PredictorWind(params)
              /\ UpdatePhysics(q) = PredictorPhysics(params, q.state, q.time)

\* a projectile in flight on the closed-form path while the wind slider is
\* off zero and the wind is disabled
C25_Witness ==
    /\ params.windSpeed # 0
    /\ ~params.windEnabled
    /\ ~params.airResistance
    /\ currentProjectile \in Live
    /\ projectiles[currentProjectile].isFlying
    /\ ~PredictorIntegrates(params)

\* the integrator as update() calls it on the projectile p
StepOf(p) ==
    integrateStepEffect(p.state, p.mass, p.diameter, p.gravity,
                        p.airResistance, p.windSpeed)

\* C26: integrateStep is an explicit Euler step: position and velocity move
\* by dt times the velocity and the acceleration held before the step, the
\* acceleration being gravity, the drag at the velocity before the step and
\* the wind; y is not clamped; the result is a new object and the state
\* handed in is as it was.
C26_ExplicitEuler ==
    \A i \in Live :
       LET p    == projectiles[i]
           s    == p.state
           call == StepOf(p)
           n    == call.newState
           drag == calculateDragForce(s.vx, s.vy, p.diameter)
           wind == calculateWindForce(p.windSpeed, p.diameter)
           ax   == (IF p.airResistance THEN MulDiv(drag.fx, 10, p.mass) ELSE 0)
                   + (IF p.windSpeed # 0 THEN MulDiv(wind.fx, 10, p.mass) ELSE 0)
           ay   == -p.gravity
                   + (IF p.airResistance THEN MulDiv(drag.fy, 10, p.mass) ELSE 0)
       IN  /\ n.x = s.x + MulDiv(s.vx, dt, 1000)
           /\ n.y = s.y + MulDiv(s.vy, dt, 1000)
           /\ n.vx = s.vx + MulDiv(ax, dt, 1000)
           /\ n.vy = s.vy + MulDiv(ay, dt, 1000)
           /\ call.state = s

\* a projectile falling with drag whose next step ends below the ground
C26_Witness ==
    \E i \in Live :
       /\ projectiles[i].isFlying
       /\ projectiles[i].airResistance
       /\ projectiles[i].state.y > 0
       /\ projectiles[i].state.vy < 0
       /\ StepOf(projectiles[i]).newState.y < 0

\* the greatest number of a non-empty set of numbers
Greatest(S) == CHOOSE m \in S : \A k \in S : k <= m

\* the heights a launched projectile has held: those of its samples, taken
\* before each tick, and the one it holds now
HeightsHeld(p) ==
    {p.trajectory[k].y : k \in DOMAIN p.trajectory} \cup {p.state.y}

\* C27: after launch, maxHeight is the greatest of 0 and the heights of all
\* the states held since: of the sampled ones and the present one, as long
\* as the trajectory holds every sample (fewer than 500 ticks), and tick by
\* tick, the greater of the old maxHeight and the height update() computed,
\* for every flight.
C27_MaxHeightIsMaximum ==
    /\ [](\A i \in Live :
            LET p == projectiles[i]
            IN  (p.isFlying \/ p.hasLanded)
                   /\ Len(p.trajectory) < maxTrajectoryPoints
                   => p.maxHeight = Greatest(HeightsHeld(p) \cup {0}))
    /\ [][\A i \in Live :
            Update(i) /\ projectiles[i].isFlying
               => LET y == UpdatePhysics(projectiles[i]).y
                  IN  projectiles'[i].maxHeight
                         = Greatest({projectiles[i].maxHeight, y})]_vars

\* a projectile on its way down, below the height it has reached
C27_Witness ==
    \E i \in Live :
       /\ projectiles[i].isFlying
       /\ projectiles[i].state.vy < 0
       /\ projectiles[i].state.y > 0
       /\ projectiles[i].state.y < projectiles[i].maxHeight
       /\ Len(projectiles[i].trajectory) > 2
       /\ Len(projectiles[i].trajectory) < maxTrajectoryPoints

\* C28: at rest the drag is zero: calculateDragForce(0, 0, d) is (0, 0),
\* and a step of the integrator with drag enabled, from a state with
\* vx = vy = 0, leaves the position, adds -g * dt to vy and adds to vx dt
\* times the acceleration of the wind alone (0 without wind).
C28_DragZeroAtRest ==
    \A i \in Live :
       LET p == projectiles[i]
           s == p.state
           n == integrateStep(s, p.mass, p.diameter, p.gravity, TRUE,
                              p.windSpeed)
           windOnly == IF p.windSpeed # 0
                       THEN MulDiv(calculateWindForce(p.windSpeed, p.diameter).fx,
                                   10, p.mass)
                       ELSE 0
       IN  s.vx = 0 /\ s.vy = 0
              => /\ calculateDragForce(s.vx, s.vy, p.diameter)
                       = [fx |-> 0, fy |-> 0]
                 /\ n.x = s.x
                 /\ n.y = s.y
                 /\ n.vy = MulDiv(-p.gravity, dt, 1000)
                 /\ n.vx = MulDiv(windOnly, dt, 1000)

\* a projectile with drag, in wind, launched from rest, and landed after the
\* one step the integrator took from that state
C28_Witness ==
    \E i \in Live :
       /\ projectiles[i].airResistance
       /\ projectiles[i].windSpeed # 0
       /\ projectiles[i].v0 = 0
       /\ projectiles[i].hasLanded
       /\ projectiles[i].time = dt
       /\ projectiles[i].state.vy = MulDiv(-projectiles[i].gravity, dt, 1000)

\* C29: the trajectory is sampled before the step: a tick of a flying
\* projectile appends the position held before it (while fewer than 500
\* samples are held), and an update() of a projectile that is not flying
\* appends nothing, so the position of the landing is never sampled; hence
\* the first sample is the launch origin and the number of samples is the
\* smaller of 500 and the number of ticks since launch, time / dt.
C29_SampledBeforeStep ==
    /\ [](\A i \in Live :
            LET p == projectiles[i]
                ticks == p.time \div dt
            IN  /\ Len(p.trajectory) = IF ticks < maxTrajectoryPoints
                                       THEN ticks ELSE maxTrajectoryPoints
                /\ Len(p.trajectory) > 0 => p.trajectory[1] = [x |-> 0, y |-> 0])
    /\ [][\A i \in Live :
            Update(i) /\ projectiles[i].isFlying
               => projectiles'[i].trajectory =
                     IF Len(projectiles[i].trajectory) < maxTrajectoryPoints
                     THEN Append(projectiles[i].trajectory,
                                 [x |-> projectiles[i].state.x,
                                  y |-> projectiles[i].state.y])
                     ELSE projectiles[i].trajectory]_vars
    /\ [][\A i \in Live :
            Update(i) /\ ~projectiles[i].isFlying
               => projectiles'[i].trajectory = projectiles[i].trajectory]_vars

\* a landed projectile whose last sample is above the ground, short of the
\* landing position
C29_Witness ==
    \E i \in Live :
       LET p == projectiles[i]
       IN  /\ p.hasLanded
           /\ p.range > 0
           /\ Len(p.trajectory) > 2
           /\ Len(p.trajectory) < maxTrajectoryPoints
           /\ p.trajectory[Len(p.trajectory)].y > 0
           /\ p.trajectory[Len(p.trajectory)].x < p.range

RECURSIVE HitPoints(_)
\* the sum of the points of the targets of a list that are marked hit
HitPoints(targets) ==
    IF targets = << >> THEN 0
    ELSE (IF Head(targets).hit THEN Head(targets).points ELSE 0)
         + HitPoints(Tail(targets))

\* C30: the score of the TargetSystem is the sum of the points of the
\* targets now marked hit, each counted once.
C30_ScoreIsSumOfHits ==
    targetSystem.score = HitPoints(targetSystem.targets)

====
